---- MODULE Spec2Model ----
(***************************************************************************)
(* pynab: the two-tier response cache (CacheMeOutside), the API client     *)
(* (Client.get) and the budget resolver (Client.get_budget_id) of          *)
(* src/pynab/client.py, as a state machine.                                *)
(*                                                                         *)
(* A Python dict is an insertion-ordered sequence of entries [k, v] with   *)
(* distinct keys.  A JSON object with the fields id and name is Obj(i, n). *)
(* An exception leaves the assignments made before it in place and is      *)
(* recorded as the outcome of the call.                                    *)
(***************************************************************************)
EXTENDS Integers, Sequences, FiniteSets, TLC

\* The most budgets the remote service has, and so the longest list of them
\* it answers with.
MaxList == 2
\* The longest payload a caller hands to cache().
MaxPayload == 1

None == "None"

----------------------------------------------------------------------------
(* Python values *)

Obj(i, n) == [tag |-> "obj", id |-> i, name |-> n]
Str(s)    == [tag |-> "str", id |-> s, name |-> ""]

Entry(key, val) == [k |-> key, v |-> val]

\* the one element of a set of one: The({F(x) : x \in {e}}) is F(e), with e
\* evaluated once
The(S) == CHOOSE x \in S : TRUE

EmptyDict == << >>

Keys(d) == {d[i].k : i \in 1..Len(d)}

\* d[key] = val: an existing key keeps its position, a new key goes last
DictSet(d, key, val) ==
    IF key \in Keys(d)
    THEN [i \in 1..Len(d) |-> IF d[i].k = key THEN Entry(key, val) ELSE d[i]]
    ELSE Append(d, Entry(key, val))

\* d.update(e)
RECURSIVE DictUpdate(_, _)
DictUpdate(d, e) ==
    IF e = << >> THEN d
    ELSE DictUpdate(DictSet(d, Head(e).k, Head(e).v), Tail(e))

\* d == e in Python: the same keys with the same values, in any order
DictEq(d, e) == {d[i] : i \in 1..Len(d)} = {e[i] : i \in 1..Len(e)}

\* the truth value of a dict: empty is falsy
Truthy(d) == d # EmptyDict

\* {item['id']: item for item in items}
RECURSIVE ById(_)
ById(items) ==
    IF items = << >> THEN EmptyDict
    ELSE LET rest == ById(SubSeq(items, 1, Len(items) - 1))
             last == items[Len(items)]
         IN  DictSet(rest, last.id, last)

\* the fields of a JSON object, as a dict
Fields(o) == << Entry("id", Str(o.id)), Entry("name", Str(o.name)) >>

\* json.dumps / json.loads of a dict with string keys
json_dumps(d) == [json |-> d]
json_loads(t) == t.json

\* a mapping (the _cache_dict, the files of the cache directory) with x := y
Put(m, x, y) == [z \in DOMAIN m \cup {x} |-> IF z = x THEN y ELSE m[z]]
Empty == [z \in {} |-> EmptyDict]

----------------------------------------------------------------------------
(* CacheMeOutside: operators over the in-memory map cd (_cache_dict), the  *)
(* files fs of the cache directory and dir (the directory exists).         *)

\* self.is_uuid(string): the identifiers of the service parse as UUIDs
Uuids == {"b1", "b2", "b3", "c1", "p1"}
is_uuid(string) == string \in Uuids

\* from_file that finds no file, whatever the directory holds
from_file_missing(fs, dir, name) == [none |-> TRUE, data |-> EmptyDict]

\* from_file(name): None when open() raises FileNotFoundError
from_file(fs, dir, name) ==
    IF dir /\ name \in DOMAIN fs
    THEN [none |-> FALSE, data |-> json_loads(fs[name])]
    ELSE [none |-> TRUE, data |-> EmptyDict]

\* to_file(name, data): open(path, 'w') raises when the directory is missing
to_file(fs, dir, name, data) ==
    IF dir
    THEN [exc |-> "ok", fs |-> Put(fs, name, json_dumps(data))]
    ELSE [exc |-> "FileNotFoundError", fs |-> fs]

\* cache_memory with the update made on a temporary dict in every case
cache_memory_lost(cd, key1, key2, data) == cd

\* self._cache_dict.get(key1, {}): a temporary dict when key1 is not there,
\* so the update is lost
cache_memory(cd, key1, key2, data) ==
    IF key1 \notin DOMAIN cd THEN cd
    ELSE IF key2 = None
         THEN Put(cd, key1, DictUpdate(cd[key1], data))
         ELSE Put(cd, key1, DictSet(cd[key1], key2, data))

\* cache(key1, key2, data)
cache(cd, fs, dir, key1, key2, data) ==
    LET cd1 == cache_memory(cd, key1, key2, data)
    IN  IF key2 = None
        THEN LET w == to_file(fs, dir, key1, data)
             IN  [cd |-> cd1, fs |-> w.fs, exc |-> w.exc, ret |-> data]
        ELSE LET f == from_file(fs, dir, key1)
             IN  IF f.none
                 THEN [cd |-> cd1, fs |-> fs, exc |-> "AttributeError",
                       ret |-> EmptyDict]
                 ELSE LET merged == DictUpdate(f.data, Fields(data))
                          w == to_file(fs, dir, key1, merged)
                      IN  [cd |-> cd1, fs |-> w.fs, exc |-> w.exc,
                           ret |-> merged]

\* clear_cache that empties the map and leaves the directory alone
clear_cache_memory_only(cd, fs, dir) ==
    [cd |-> Empty, fs |-> fs, dir |-> dir, exc |-> "ok"]

\* clear_cache(): the map is replaced before shutil.rmtree runs
clear_cache(cd, fs, dir) ==
    IF dir
    THEN [cd |-> Empty, fs |-> Empty, dir |-> FALSE, exc |-> "ok"]
    ELSE [cd |-> Empty, fs |-> fs, dir |-> FALSE, exc |-> "FileNotFoundError"]

\* self._cache_dict[cache_key] of a defaultdict(dict): inserts {} when missing
defaultdict_getitem(cd, cache_key) ==
    IF cache_key \in DOMAIN cd THEN cd ELSE Put(cd, cache_key, EmptyDict)

\* get_from_cache(cache_key); src tells where the value was found
get_from_cache(cd, fs, dir, cache_key) ==
    IF cache_key \in DOMAIN cd
    THEN [cd |-> cd, ret |-> cd[cache_key], src |-> "memory"]
    ELSE LET f == from_file(fs, dir, cache_key)
             cd1 == IF ~f.none THEN Put(cd, cache_key, f.data) ELSE cd
             cd2 == defaultdict_getitem(cd1, cache_key)
         IN  [cd |-> cd2, ret |-> cd2[cache_key],
              src |-> IF f.none THEN "none" ELSE "file"]

----------------------------------------------------------------------------
(* Client.  A url path is the sequence of its segments: <<"budgets", "b1", *)
(* "transactions">> is /budgets/b1/transactions.                           *)

\* url_path.split('/')[-2:] of a path that starts with '/'
LastTwo(url_path) ==
    LET parts == <<"">> \o url_path
    IN  [almost_tail |-> parts[Len(parts) - 1], tail |-> parts[Len(parts)]]

\* string.lower()[:-1] == 'y', over the segment names of the service: none of
\* them is a two-letter word starting with y
AllButLastIsY(string) == string \in {"ys", "Ys"}

\* template.format(arg) of a template without replacement fields
FormatNoFields(template, arg) == template

\* pluralize(string)
pluralize(string) ==
    LET string1 == IF AllButLastIsY(string)
                   THEN FormatNoFields("%s_groups", string)
                   ELSE string
    IN  FormatNoFields("%ss", string1)

\* get_key(url_path)
get_key(url_path) ==
    LET p == LastTwo(url_path)
    IN  IF is_uuid(p.tail) THEN pluralize(p.almost_tail) ELSE p.tail

\* get_key(url_path) of any string, given as parts, its url_path.split('/'):
\* `almost_tail, tail = parts[-2:]` raises ValueError when there is one part
get_key_str(parts) ==
    IF Len(parts) < 2
    THEN [exc |-> "ValueError", key |-> ""]
    ELSE LET almost_tail == parts[Len(parts) - 1]
             tail == parts[Len(parts)]
         IN  [exc |-> "ok",
              key |-> IF is_uuid(tail) THEN pluralize(almost_tail) ELSE tail]

\* A parsed body {top: {res: value}} or {top: value} is [top, res, val]: val
\* is the list, or the one object of a body that carries an object.
Value(body) == IF body.shape = "object" THEN body.val[1] ELSE body.val

\* data['data'][name] of a parsed body: KeyError unless the body has it
HasData(body, name) == body.top = "data" /\ body.res = name

\* get_keys_and_data(url_path, data)
get_keys_and_data(url_path, body) ==
    LET p == LastTwo(url_path)
    IN  IF is_uuid(p.tail)
        THEN IF HasData(body, p.almost_tail)
             THEN [exc |-> "ok", key1 |-> pluralize(p.almost_tail),
                   key2 |-> p.tail, data |-> Value(body)]
             ELSE [exc |-> "KeyError", key1 |-> pluralize(p.almost_tail),
                   key2 |-> p.tail, data |-> EmptyDict]
        ELSE LET tail == IF p.tail = "categories" THEN "category_groups"
                         ELSE p.tail
             IN  IF HasData(body, tail)
                 THEN [exc |-> "ok", key1 |-> p.tail, key2 |-> None,
                       data |-> ById(Value(body))]
                 ELSE [exc |-> "KeyError", key1 |-> p.tail, key2 |-> None,
                       data |-> EmptyDict]

\* what a call is given and what it returns
RetNone       == [kind |-> "None"]
RetDict(d)    == [kind |-> "dict", dict |-> d]
RetJson(body) == [kind |-> "json", body |-> body]
RetId(i)      == [kind |-> "id", id |-> i]
RetFlag(b)    == [kind |-> "flag", flag |-> b]

\* get_fetch without the status test of line 197: every answer is cached
get_fetch_any_status(w, url, resp) ==
    LET rl1 == IF resp.hdr # None THEN resp.hdr ELSE w.rl
        w1  == [w EXCEPT !.rl = rl1]
        kd  == get_keys_and_data(url, resp.body)
    IN  IF kd.exc # "ok"
        THEN [w |-> w1, exc |-> kd.exc, ret |-> RetNone]
        ELSE LET c == cache(w1.cd, w1.fs, w1.dir, kd.key1, kd.key2, kd.data)
                 w2 == [w1 EXCEPT !.cd = c.cd, !.fs = c.fs,
                          !.org = Put(w1.org, kd.key1, url)]
             IN  [w |-> w2, exc |-> c.exc,
                  ret |-> IF c.exc = "ok" THEN RetJson(resp.body)
                          ELSE RetNone]

\* The network part of Client.get (lines 188-206): one GET answered by resp.
\* w is the client's state [cd, fs, dir, rl, org]; org remembers, for each
\* cache key, the url whose answer was last written under it.
get_fetch(w, url, resp) ==
    LET rl1 == IF resp.hdr # None THEN resp.hdr ELSE w.rl
        w1  == [w EXCEPT !.rl = rl1]
    IN  IF resp.status = 200
        THEN LET kd == get_keys_and_data(url, resp.body)
             IN  IF kd.exc # "ok"
                 THEN [w |-> w1, exc |-> kd.exc, ret |-> RetNone]
                 ELSE LET c == cache(w1.cd, w1.fs, w1.dir,
                                     kd.key1, kd.key2, kd.data)
                          w2 == [w1 EXCEPT !.cd = c.cd, !.fs = c.fs,
                                   !.org = Put(w1.org, kd.key1, url)]
                      IN  [w |-> w2, exc |-> c.exc,
                           ret |-> IF c.exc = "ok" THEN RetJson(resp.body)
                                   ELSE RetNone]
        ELSE [w |-> w1, exc |-> "ok", ret |-> RetJson(resp.body)]

\* Client.get(url, use_cache) of a client whose flag is uc; resp is the answer
\* of the service, used only when a request is issued (net = 1)
get(w, uc, url, use_cache_arg, resp) ==
    IF ~(use_cache_arg /\ uc)
    THEN \* line 185 reads the local `response` before any assignment
         [w |-> w, exc |-> "UnboundLocalError", ret |-> RetNone, net |-> 0,
          src |-> "none"]
    ELSE The({ IF Truthy(g.ret)
               THEN [w |-> [w EXCEPT !.cd = g.cd], exc |-> "ok",
                     ret |-> RetDict(g.ret), net |-> 0, src |-> g.src]
               ELSE The({ [w |-> f.w, exc |-> f.exc, ret |-> f.ret,
                           net |-> 1, src |-> "network"]
                          : f \in {get_fetch([w EXCEPT !.cd = g.cd], url,
                                             resp)} })
               : g \in {get_from_cache(w.cd, w.fs, w.dir, get_key(url))} })

\* name.strip().lower(), over the names used here
StripLower(name) ==
    CASE name = "Personal" -> "personal"
      [] name = " OTHER "  -> "other"
      [] name = "Other"    -> "other"
      [] name = "Grocer"   -> "grocer"
      [] name = " RENT "   -> "rent"
      [] name = "Rent"     -> "rent"
      [] name = "Bills"    -> "bills"
      [] OTHER             -> name

\* A value with the fields id and name; the {'<resource>': [...]} under
\* 'data' of a parsed body is a dict without them.
Wrapper == [tag |-> "dict"]
HasFields(e) == e.tag = "obj"

\* list(self.get_budgets().values())
Values(ret) ==
    IF ret.kind = "dict"
    THEN [i \in 1..Len(ret.dict) |-> ret.dict[i].v]
    ELSE << IF ret.body.top = "data" THEN Wrapper ELSE Value(ret.body) >>

\* the loop of lines 247-249: the last budget whose name matches wins
RECURSIVE ScanBudgets(_, _, _)
ScanBudgets(budgets, name, budget_id) ==
    IF budgets = << >> THEN budget_id
    ELSE ScanBudgets(Tail(budgets), name,
                     IF StripLower(name) = StripLower(Head(budgets).name)
                     THEN Head(budgets).id ELSE budget_id)

\* get_budget_id(name) of a client whose _budget_id is pin
Raise(r, pin, e) ==
    [w |-> r.w, pin |-> pin, exc |-> e, ret |-> RetNone, net |-> r.net,
     src |-> r.src]

NameMatch(budgets, name) ==
    IF name # None THEN ScanBudgets(budgets, name, None) ELSE None

\* Resolve with set_budget_id called whether or not an id is pinned
Resolve_repin(r, pin, budgets, name) ==
    LET id1 == NameMatch(budgets, name)
        id2 == IF id1 = None THEN pin ELSE id1
        id3 == IF id2 # None THEN id2
               ELSE IF budgets = << >> \/ ~HasFields(budgets[1]) THEN None
               ELSE budgets[1].id
    IN  [w |-> r.w, pin |-> id3, exc |-> "ok", ret |-> RetId(id3),
         net |-> r.net, src |-> r.src]

\* lines 253-269: the pinned id, else the first budget; pin the result
Resolve(r, pin, budgets, name) ==
    LET id1 == NameMatch(budgets, name)
        id2 == IF id1 = None THEN pin ELSE id1
    IN  IF id2 = None /\ budgets # << >> /\ ~HasFields(budgets[1])
        THEN Raise(r, pin, "KeyError")
        ELSE LET id3 == IF id2 # None THEN id2
                        ELSE IF budgets = << >> THEN None
                        ELSE budgets[1].id
             IN  [w |-> r.w, pin |-> IF pin = None THEN id3 ELSE pin,
                  exc |-> "ok", ret |-> RetId(id3), net |-> r.net,
                  src |-> r.src]

get_budget_id(w, uc, pin, name, resp) ==
    The({ IF r.exc # "ok" THEN Raise(r, pin, r.exc)
          ELSE The({ IF name # None
                        /\ \E i \in 1..Len(budgets) : ~HasFields(budgets[i])
                     THEN Raise(r, pin, "KeyError")
                     ELSE Resolve(r, pin, budgets, name)
                     : budgets \in {Values(r.ret)} })
          : r \in {get(w, uc, <<"budgets">>, TRUE, resp)} })

\* self.get('/budgets/{budget_id}/<resource>'.format(
\*     budget_id=self.get_budget_id())): get_accounts, get_categories and
\* get_payees.  resp1 answers the request for the budgets, resp2 the one for
\* the resource; src is "none" when get_budget_id() raised.
get_resource(w, uc, pin, resource, resp1, resp2) ==
    The({ IF b.exc # "ok"
          THEN [w |-> b.w, pin |-> b.pin, exc |-> b.exc, ret |-> RetNone,
                net |-> b.net, src |-> "none", url |-> << >>]
          ELSE The({ [w |-> r.w, pin |-> b.pin, exc |-> r.exc, ret |-> r.ret,
                      net |-> b.net + r.net, src |-> r.src,
                      url |-> <<"budgets", b.ret.id, resource>>]
                     : r \in {get(b.w, uc, <<"budgets", b.ret.id, resource>>,
                                  TRUE, resp2)} })
          : b \in {get_budget_id(w, uc, pin, None, resp1)} })

get_accounts(w, uc, pin, resp1, resp2) ==
    get_resource(w, uc, pin, "accounts", resp1, resp2)
get_categories(w, uc, pin, resp1, resp2) ==
    get_resource(w, uc, pin, "categories", resp1, resp2)
get_payees(w, uc, pin, resp1, resp2) ==
    get_resource(w, uc, pin, "payees", resp1, resp2)

\* `for x in d` over what Client.get returned: a dict yields its keys, which
\* are strings (the ids of a cached payload, the top key of a parsed body)
Iterate(ret) ==
    IF ret.kind = "dict"
    THEN [i \in 1..Len(ret.dict) |-> Str(ret.dict[i].k)]
    ELSE << Str(ret.body.top) >>

\* x['name'] raises TypeError when x is a string
IsStr(x) == x.tag = "str"

\* the loop of lines 324-326 over payees
RECURSIVE ScanPayees(_, _)
ScanPayees(payees, name) ==
    IF payees = << >> THEN [exc |-> "ok", id |-> None]
    ELSE LET payee == Head(payees)
         IN  IF IsStr(payee) THEN [exc |-> "TypeError", id |-> None]
             ELSE IF StripLower(name) = StripLower(payee.name)
                  THEN [exc |-> "ok", id |-> payee.id]
                  ELSE ScanPayees(Tail(payees), name)

\* the result of a resolver that went through get_resource
Resolved(r, s) ==
    [w |-> r.w, pin |-> r.pin, exc |-> s.exc,
     ret |-> IF s.exc = "ok" THEN RetId(s.id) ELSE RetNone,
     net |-> r.net, src |-> r.src, url |-> r.url]

\* get_payee_id(name)
get_payee_id(w, uc, pin, name, resp1, resp2) ==
    The({ IF r.exc # "ok" THEN r
          ELSE Resolved(r, ScanPayees(Iterate(r.ret), name))
          : r \in {get_payees(w, uc, pin, resp1, resp2)} })

\* the loop of lines 294-297 over the categories of one group
RECURSIVE ScanCategories(_, _)
ScanCategories(categories, name) ==
    IF categories = << >> THEN None
    ELSE IF StripLower(name) = StripLower(Head(categories).name)
         THEN Head(categories).id
         ELSE ScanCategories(Tail(categories), name)

\* the loop of lines 288-297 over category_groups: with a group_name the
\* comparison of line 291 is evaluated and dropped, and `continue` skips the
\* group
RECURSIVE ScanGroups(_, _, _)
ScanGroups(category_groups, name, group_name) ==
    IF category_groups = << >> THEN [exc |-> "ok", id |-> None]
    ELSE LET category_group == Head(category_groups)
         IN  IF IsStr(category_group) THEN [exc |-> "TypeError", id |-> None]
             ELSE IF group_name # None
                  THEN ScanGroups(Tail(category_groups), name, group_name)
                  ELSE LET id == ScanCategories(category_group.categories,
                                                name)
                       IN  IF id # None THEN [exc |-> "ok", id |-> id]
                           ELSE ScanGroups(Tail(category_groups), name,
                                           group_name)

\* get_category_id(name, group_name)
get_category_id(w, uc, pin, name, group_name, resp1, resp2) ==
    The({ IF r.exc # "ok" THEN r
          ELSE Resolved(r, ScanGroups(Iterate(r.ret), name, group_name))
          : r \in {get_categories(w, uc, pin, resp1, resp2)} })

\* post that forgets the rate limit when the answer has no header
post_reset(w, resp) ==
    [w |-> [w EXCEPT !.rl = resp.hdr], exc |-> "ok",
     ret |-> RetJson(resp.body), net |-> 1]

\* Client.post(url, data_dict): one POST answered by resp; the status only
\* decides whether a warning is logged
post(w, resp) ==
    [w |-> [w EXCEPT !.rl = IF resp.hdr # None THEN resp.hdr ELSE w.rl],
     exc |-> "ok", ret |-> RetJson(resp.body), net |-> 1]

\* `not x` of an optional string
Falsy(x) == x \in {None, ""}

\* arrow.get(date) raises on a string it cannot parse
Dates == {"2024-01-01", "soon"}
arrow_get(date) == IF date = "2024-01-01" THEN "ok" ELSE "ParserError"

RetObj(o) == [kind |-> "obj", obj |-> o]

\* the outcome of post_transaction at the point it raises or returns
Outcome(w, pin, exc, ret, net, url) ==
    [w |-> w, pin |-> pin, exc |-> exc, ret |-> ret, net |-> net, url |-> url]

\* the arguments of a post_transaction call
TxnArgs(date, payee_id, payee_name, account_id) ==
    [kind |-> "txn", date |-> date, payee_id |-> payee_id,
     payee_name |-> payee_name, account_id |-> account_id]

\* post_transaction from line 365 on, with the arguments a.  resp1 answers
\* the request for the budgets, resp2 the one for the accounts, resp3 the
\* POST.  The dict that get_accounts() returns has string keys, so its [0]
\* raises KeyError.
post_transaction_body(w, uc, pin, a, resp1, resp2, resp3) ==
    IF a.account_id = None
    THEN The({ Outcome(r.w, r.pin,
                       IF r.exc # "ok" THEN r.exc ELSE "KeyError",
                       RetNone, r.net, << >>)
               : r \in {get_accounts(w, uc, pin, resp1, resp2)} })
    ELSE IF arrow_get(a.date) # "ok"
    THEN Outcome(w, pin, arrow_get(a.date), RetNone, 0, << >>)
    ELSE The({ IF b.exc # "ok"
               THEN Outcome(b.w, b.pin, b.exc, RetNone, b.net, << >>)
               ELSE The({ IF HasData(resp3.body, "transaction")
                          THEN Outcome(r.w, b.pin, "ok",
                                       RetObj(Value(resp3.body)),
                                       b.net + r.net,
                                       <<"budgets", b.ret.id, "transactions">>)
                          ELSE Outcome(r.w, b.pin, "KeyError", RetNone,
                                       b.net + r.net,
                                       <<"budgets", b.ret.id, "transactions">>)
                          : r \in {post(b.w, resp3)} })
               : b \in {get_budget_id(w, uc, pin, None, resp1)} })

\* post_transaction without the test of lines 362-363
post_transaction_unchecked(w, uc, pin, a, resp1, resp2, resp3) ==
    post_transaction_body(w, uc, pin, a, resp1, resp2, resp3)

\* post_transaction(memo, date, amount, payee_id, payee_name, account_id):
\* memo, amount and the other fields go into the body of the POST only
post_transaction(w, uc, pin, a, resp1, resp2, resp3) ==
    IF Falsy(a.payee_id) /\ Falsy(a.payee_name)
    THEN Outcome(w, pin, "UserWarning", RetNone, 0, << >>)
    ELSE post_transaction_body(w, uc, pin, a, resp1, resp2, resp3)

----------------------------------------------------------------------------
(* The remote service and the callers' inputs *)

BudgetPool  == <<Obj("b1", "Personal"), Obj("b2", "Other"),
                 Obj("b3", "Shared")>>
BudgetItems == {BudgetPool[i] : i \in (1..MaxList) \cap DOMAIN BudgetPool}
TxnItems    == {Obj("t1", "rent")}
PayeeItems  == {Obj("p1", "grocer")}
AccountItems == {Obj("a1", "checking")}

\* a category group, with its categories
Group(i, n, cats) == [tag |-> "obj", id |-> i, name |-> n, categories |-> cats]
GroupItems  == {Group("g1", "Bills", <<Obj("c1", "Rent")>>)}

\* the lists of at most n items of S, no item twice
Lists(S, n) ==
    UNION {{q \in [1..m -> S] : \A i, j \in 1..m : i # j => q[i] # q[j]}
           : m \in 0..n}

BudgetsUrl == <<"budgets">>

Urls ==
    {BudgetsUrl,
     <<"budgets", "b1", "transactions">>,
     <<"budgets", "b2", "transactions">>,
     <<"budgets", "b1", "categories", "c1", "transactions">>,
     <<"budgets", "b1", "payees", "p1", "transactions">>,
     <<"budgets", "b1", "payees", "p1">>}

ItemsOf(resource) ==
    CASE resource = "budgets"    -> BudgetItems
      [] resource = "payees"     -> PayeeItems
      [] resource = "categories" -> GroupItems
      [] resource = "accounts"   -> AccountItems
      [] OTHER                   -> TxnItems

\* the name the service gives the list of a resource in its body
DataName(resource) ==
    IF resource = "categories" THEN "category_groups" ELSE resource

\* the x-rate-limit header of an answer, None when it has none
Headers == {None, "36/200"}

\* the error object of a non-200 answer, with or without id and name
ErrorObjects == {Obj("401", "unauthorized"), Wrapper}

\* The answers of the service to GET url, with a header of H: 200 with the
\* resource (a single item comes under the singular name, or under the plural
\* one), or 401 with an error object of E.
Answers(url, H, E) ==
    LET p == LastTwo(url)
        bodies ==
            IF is_uuid(p.tail)
            THEN {[top |-> "data", res |-> r, shape |-> "object", val |-> <<o>>]
                  : r \in {"payee", p.almost_tail}, o \in PayeeItems}
            ELSE {[top |-> "data", res |-> DataName(p.tail), shape |-> "list",
                   val |-> l]
                  : l \in Lists(ItemsOf(p.tail), MaxList)}
    IN  {[status |-> 200, hdr |-> h, body |-> b] : h \in H, b \in bodies}
        \cup
        {[status |-> 401, hdr |-> h,
          body |-> [top |-> "error", res |-> "", shape |-> "object",
                    val |-> <<e>>]]
         : h \in H, e \in E}

NoAnswer == [status |-> 0, hdr |-> None,
             body |-> [top |-> "", res |-> "", shape |-> "list", val |-> << >>]]

\* the keys and payloads callers pass to cache() and get_from_cache()
CacheKeys == {"budgets", "transactions", "%ss"}
Payloads(key) ==
    IF key = "%ss" THEN {ById(l) : l \in Lists(PayeeItems, MaxPayload)}
    ELSE {ById(l) : l \in Lists(ItemsOf(key), MaxPayload)}

BudgetNames == {None, "Personal", " OTHER ", "Nope"}

----------------------------------------------------------------------------
(* State *)

VARIABLES
    cache_dict,        \* self._cache_dict
    files,             \* the files of the cache directory, by name
    cache_directory,   \* the cache directory exists
    budget_id,         \* self._budget_id
    rate_limit,        \* self.rate_limit
    use_cache,         \* self.use_cache
    origin,            \* for each cache key, the url whose answer it holds
    last               \* the last call: what it was given and what it did

vars == <<cache_dict, files, cache_directory, budget_id, rate_limit,
          use_cache, origin, last>>

\* the client's state, as the operators take it
World == [cd |-> cache_dict, fs |-> files, dir |-> cache_directory,
          rl |-> rate_limit, org |-> origin]

\* the record of a call
Call(op, url, key, key2, arg, exc, ret, net, src, resp) ==
    [op |-> op, url |-> url, key |-> key, key2 |-> key2, arg |-> arg,
     exc |-> exc, ret |-> ret, net |-> net, src |-> src, resp |-> resp,
     \* the call started with nothing under key, in memory or in a file
     cold |-> key \notin DOMAIN cache_dict /\ key \notin DOMAIN files,
     \* the cache files there were when the call started
     stored |-> DOMAIN files]

NoCall ==
    [op |-> "none", url |-> << >>, key |-> "", key2 |-> None, arg |-> RetNone,
     exc |-> "ok", ret |-> RetNone, net |-> 0, src |-> "none",
     resp |-> NoAnswer, cold |-> TRUE, stored |-> {}]

\* m without x
Drop(m, x) == [z \in DOMAIN m \ {x} |-> m[z]]

\* Client.__init__(token, use_cache), in a process that finds the cache
\* directory there or not
Init ==
    /\ cache_dict = Empty
    /\ files = Empty
    /\ cache_directory \in BOOLEAN
    /\ budget_id = None
    /\ rate_limit = None
    /\ use_cache \in BOOLEAN
    /\ origin = Empty
    /\ last = NoCall

\* Client.__init__(token, use_cache): a new client on the same directory
NewClient ==
    \E uc \in BOOLEAN :
        /\ cache_dict' = Empty
        /\ budget_id' = None
        /\ rate_limit' = None
        /\ use_cache' = uc
        /\ last' = Call("init", << >>, "", None, RetNone, "ok", RetNone, 0,
                        "none", NoAnswer)
        /\ UNCHANGED <<files, cache_directory, origin>>

\* cache(key1, key2, data), called on the client with a key of K
Cache(K) ==
    \E key1 \in K, key2 \in {None, "p1"} :
    \E data \in IF key2 = None THEN Payloads(key1) ELSE PayeeItems :
        \E c \in {cache(cache_dict, files, cache_directory, key1, key2, data)} :
            /\ key2 # None => key1 = "%ss"
            /\ cache_dict' = c.cd
            /\ files' = c.fs
            /\ origin' = Drop(origin, key1)
            /\ last' = Call("cache", << >>, key1, key2,
                            IF key2 = None THEN RetDict(data) ELSE RetNone,
                            c.exc,
                            IF c.exc = "ok" THEN RetDict(c.ret) ELSE RetNone,
                            0, "none", NoAnswer)
            /\ UNCHANGED <<cache_directory, budget_id, rate_limit, use_cache>>

\* get_from_cache(cache_key), called on the client with a key of K
GetFromCache(K) ==
    \E cache_key \in K :
        \E g \in {get_from_cache(cache_dict, files, cache_directory,
                                  cache_key)} :
            /\ cache_dict' = g.cd
            /\ last' = Call("get_from_cache", << >>, cache_key, None, RetNone,
                            "ok", RetDict(g.ret), 0, g.src, NoAnswer)
            /\ UNCHANGED <<files, cache_directory, budget_id, rate_limit,
                           use_cache, origin>>

\* clear_cache()
ClearCache ==
    \E c \in {clear_cache(cache_dict, files, cache_directory)} :
        /\ cache_dict' = c.cd
        /\ files' = c.fs
        /\ cache_directory' = c.dir
        /\ origin' = Empty
        /\ last' = Call("clear_cache", << >>, "", None, RetNone, c.exc,
                        RetNone, 0, "none", NoAnswer)
        /\ UNCHANGED <<budget_id, rate_limit, use_cache>>

\* the call issues a request: it is the same for every answer
Fetches(url, arg) == get(World, use_cache, url, arg, NoAnswer).net = 1

\* Client.get(url, use_cache) for a url of U, the service answering with a
\* header of H and, when it fails, an error object of E
Get(U, H, E) ==
    \E url \in U, arg \in BOOLEAN :
    \E resp \in IF Fetches(url, arg) THEN Answers(url, H, E) ELSE {NoAnswer} :
        \E r \in {get(World, use_cache, url, arg, resp)} :
            /\ cache_dict' = r.w.cd
            /\ files' = r.w.fs
            /\ rate_limit' = r.w.rl
            /\ origin' = r.w.org
            /\ last' = Call("get", url, get_key(url), None, RetFlag(arg),
                            r.exc, r.ret, r.net, r.src, resp)
            /\ UNCHANGED <<cache_directory, budget_id, use_cache>>

\* string.split('/') of a url path, which starts with '/', and of a string
\* without '/', such as a cache key
SplitPath(url_path) == <<"">> \o url_path
SplitWord(string) == <<string>>

\* the strings callers pass to get_key(): url paths, a relative path, and
\* cache keys
KeyTexts ==
    {SplitPath(u) : u \in Urls} \cup {<<"payees", "p1">>}
    \cup {SplitWord(k) : k \in CacheKeys}

\* get_key(url_path), called on the client with a string of T
GetKey(T) ==
    \E parts \in T :
        \E r \in {get_key_str(parts)} :
            /\ last' = Call("get_key", parts, r.key, None, RetNone, r.exc,
                            IF r.exc = "ok" THEN RetId(r.key) ELSE RetNone,
                            0, "none", NoAnswer)
            /\ UNCHANGED <<cache_dict, files, cache_directory, budget_id,
                           rate_limit, use_cache, origin>>

\* set_budget_id(budget_id)
SetBudgetId ==
    \E id \in {None, "b1", "b2"} :
        /\ budget_id' = id
        /\ last' = Call("set_budget_id", << >>, "", None, RetId(id), "ok",
                        RetNone, 0, "none", NoAnswer)
        /\ UNCHANGED <<cache_dict, files, cache_directory, rate_limit,
                       use_cache, origin>>

\* get_budget_id(name), the service answering as for Get
GetBudgetId(H, E) ==
    \E name \in BudgetNames :
    \E resp \in IF Fetches(BudgetsUrl, TRUE) THEN Answers(BudgetsUrl, H, E)
                ELSE {NoAnswer} :
        \E r \in {get_budget_id(World, use_cache, budget_id, name, resp)} :
            /\ cache_dict' = r.w.cd
            /\ files' = r.w.fs
            /\ rate_limit' = r.w.rl
            /\ origin' = r.w.org
            /\ budget_id' = r.pin
            /\ last' = Call("get_budget_id", BudgetsUrl, "budgets", None,
                            RetId(name), r.exc, r.ret, r.net, r.src, resp)
            /\ UNCHANGED <<cache_directory, use_cache>>

\* the answers to the request for the budgets a resolver starts with
BudgetAnswers(H, E) ==
    IF Fetches(BudgetsUrl, TRUE) THEN Answers(BudgetsUrl, H, E)
    ELSE {NoAnswer}

\* the answers to the request for the resource that follows, when the
\* resolver gets that far and requests it
ResourceAnswers(resource, resp1, H, E) ==
    The({ IF b.exc # "ok" THEN {NoAnswer}
          ELSE IF get(b.w, use_cache, <<"budgets", b.ret.id, resource>>,
                      TRUE, NoAnswer).net = 1
               THEN Answers(<<"budgets", b.ret.id, resource>>, H, E)
               ELSE {NoAnswer}
          : b \in {get_budget_id(World, use_cache, budget_id, None, resp1)} })

PayeeNames    == {"Grocer", "nope"}
CategoryNames == {" RENT ", "nope"}
GroupNames    == {None, "Bills", "nope"}

\* get_payee_id(name) for a name of N
GetPayeeId(N, H, E) ==
    \E name \in N :
    \E resp1 \in BudgetAnswers(H, E) :
    \E resp2 \in ResourceAnswers("payees", resp1, H, E) :
        \E r \in {get_payee_id(World, use_cache, budget_id, name, resp1,
                               resp2)} :
            /\ cache_dict' = r.w.cd
            /\ files' = r.w.fs
            /\ rate_limit' = r.w.rl
            /\ origin' = r.w.org
            /\ budget_id' = r.pin
            /\ last' = Call("get_payee_id", r.url, "payees", None,
                            RetId(name), r.exc, r.ret, r.net, r.src, resp2)
            /\ UNCHANGED <<cache_directory, use_cache>>

\* get_category_id(name, group_name) for a name of N and a group_name of G;
\* the record of the call keeps group_name as key2
GetCategoryId(N, G, H, E) ==
    \E name \in N, group_name \in G :
    \E resp1 \in BudgetAnswers(H, E) :
    \E resp2 \in ResourceAnswers("categories", resp1, H, E) :
        \E r \in {get_category_id(World, use_cache, budget_id, name,
                                  group_name, resp1, resp2)} :
            /\ cache_dict' = r.w.cd
            /\ files' = r.w.fs
            /\ rate_limit' = r.w.rl
            /\ origin' = r.w.org
            /\ budget_id' = r.pin
            /\ last' = Call("get_category_id", r.url, "categories",
                            group_name, RetId(name), r.exc, r.ret, r.net,
                            r.src, resp2)
            /\ UNCHANGED <<cache_directory, use_cache>>

\* the x-rate-limit headers of two answers that differ
RateHeaders == Headers \cup {"37/200"}

\* The answers of the service to a POST of a transaction: 200 or 201 with
\* the transaction, or 400 with an error object of E.
PostAnswers(H, E) ==
    {[status |-> st, hdr |-> h,
      body |-> [top |-> "data", res |-> "transaction", shape |-> "object",
                val |-> <<o>>]]
     : st \in {200, 201}, h \in H, o \in TxnItems}
    \cup
    {[status |-> 400, hdr |-> h,
      body |-> [top |-> "error", res |-> "", shape |-> "object",
                val |-> <<e>>]]
     : h \in H, e \in E}

\* Client.post(url, data_dict)
Post(H, E) ==
    \E url \in {<<"budgets", "b1", "transactions">>} :
    \E resp \in PostAnswers(H, E) :
        \E r \in {post(World, resp)} :
            /\ rate_limit' = r.w.rl
            /\ last' = Call("post", url, "", None, RetNone, r.exc, r.ret,
                            r.net, "network", resp)
            /\ UNCHANGED <<cache_dict, files, cache_directory, budget_id,
                           use_cache, origin>>

\* the payee_id and payee_name of a post_transaction call: none, an empty
\* id, an id, a name
PayeeArgs ==
    {<<None, None>>, <<"", None>>, <<"p1", None>>, <<None, "grocer">>}

\* the answers the service has for the POST of a call that gets that far
TransactionAnswers(a, resp1, H, E) ==
    IF /\ a.account_id # None
       /\ arrow_get(a.date) = "ok"
       /\ get_budget_id(World, use_cache, budget_id, None, resp1).exc = "ok"
    THEN PostAnswers(H, E)
    ELSE {NoAnswer}

\* post_transaction(memo, date, amount, payee_id, payee_name, account_id)
\* for a date of D and a payee of P; resp1, resp2 and resp3 are what the service answers to the requests the
\* call issues, if it does
PostTransaction(D, P, H, E) ==
    \E date \in D, payee \in P, account_id \in {None, "a1"} :
    \E payee_id \in {payee[1]}, payee_name \in {payee[2]} :
    \E a \in {TxnArgs(date, payee_id, payee_name, account_id)} :
    \E resp1 \in BudgetAnswers(H, E) :
    \E resp2 \in IF account_id = None
                  THEN ResourceAnswers("accounts", resp1, H, E)
                  ELSE {NoAnswer} :
    \E resp3 \in TransactionAnswers(a, resp1, H, E) :
        \E r \in {post_transaction(World, use_cache, budget_id, a, resp1,
                                   resp2, resp3)} :
            /\ cache_dict' = r.w.cd
            /\ files' = r.w.fs
            /\ rate_limit' = r.w.rl
            /\ origin' = r.w.org
            /\ budget_id' = r.pin
            /\ last' = Call("post_transaction", r.url, "", None, a, r.exc,
                            r.ret, r.net,
                            IF r.net > 0 THEN "network" ELSE "none",
                            IF r.url # << >> THEN resp3 ELSE NoAnswer)
            /\ UNCHANGED <<cache_directory, use_cache>>

\* every operation, on every input
Next ==
    \/ NewClient
    \/ Cache(CacheKeys)
    \/ GetFromCache(CacheKeys)
    \/ ClearCache
    \/ Get(Urls, Headers, ErrorObjects)
    \/ SetBudgetId
    \/ GetBudgetId(Headers, ErrorObjects)
    \/ GetKey(KeyTexts)
    \/ GetPayeeId(PayeeNames, Headers, ErrorObjects)
    \/ GetCategoryId(CategoryNames, GroupNames, Headers, ErrorObjects)
    \/ Post(Headers, ErrorObjects)
    \/ PostTransaction(Dates, PayeeArgs, Headers, ErrorObjects)

Spec == Init /\ [][Next]_vars

\* the cache alone: cache(), get_from_cache() and clear_cache()
StoreKeys == {"budgets", "%ss"}

NextCache ==
    \/ NewClient
    \/ Cache(StoreKeys)
    \/ GetFromCache(StoreKeys)
    \/ ClearCache

SpecCache == Init /\ [][NextCache]_vars

\* Client.get, the service sending no rate-limit header
NextGet ==
    \/ NewClient
    \/ ClearCache
    \/ Get(Urls, {None}, {Wrapper})

SpecGet == Init /\ [][NextGet]_vars

\* the budget resolver
NextBudget ==
    \/ NewClient
    \/ ClearCache
    \/ SetBudgetId
    \/ GetBudgetId({None}, ErrorObjects)

SpecBudget == Init /\ [][NextBudget]_vars

\* the cache key of a string, next to Client.get on two paths
KeyUrls == {BudgetsUrl, <<"budgets", "b1", "payees", "p1">>}

NextKey ==
    \/ NewClient
    \/ ClearCache
    \/ Get(KeyUrls, {None}, {Wrapper})
    \/ GetKey(KeyTexts)

SpecKey == Init /\ [][NextKey]_vars

\* the category resolver
NextCategory ==
    \/ NewClient
    \/ ClearCache
    \/ SetBudgetId
    \/ GetCategoryId(CategoryNames, GroupNames, {None}, {Wrapper})

SpecCategory == Init /\ [][NextCategory]_vars

\* the payee resolver
NextPayee ==
    \/ NewClient
    \/ ClearCache
    \/ SetBudgetId
    \/ GetPayeeId(PayeeNames, {None}, {Wrapper})

SpecPayee == Init /\ [][NextPayee]_vars

\* posting a transaction
NextPost ==
    \/ NewClient
    \/ PostTransaction(Dates, PayeeArgs, Headers, {Wrapper})

SpecPost == Init /\ [][NextPost]_vars

\* the rate limit: Client.get and Client.post, the service sending the
\* header or not
NextRate ==
    \/ NewClient
    \/ Get(KeyUrls, RateHeaders, {Wrapper})
    \/ Post(RateHeaders, {Wrapper})

SpecRate == Init /\ [][NextRate]_vars

\* the pinned budget: set_budget_id, get_budget_id, a resolver that goes
\* through get_budget_id(), and Client.get
PinUrls == {BudgetsUrl, <<"budgets", "b1", "payees">>}

NextPin ==
    \/ NewClient
    \/ SetBudgetId
    \/ GetBudgetId({None}, {Wrapper})
    \/ GetPayeeId({"Grocer"}, {None}, {Wrapper})
    \/ Get(PinUrls, {None}, {Wrapper})

SpecPin == Init /\ [][NextPin]_vars

----------------------------------------------------------------------------
(* Read-through and the value Client.get returns *)

\* the last call is Client.get(url, use_cache) of the kind given
IsGet(c) == c.op = "get"
Enabled(c) == c.arg.flag /\ use_cache
GotList(c) ==
    /\ c.net = 1
    /\ c.resp.status = 200
    /\ c.resp.body.shape = "list"

\* C1: from a cold cache and a 200 answer with a non-empty list, two
\* consecutive Client.get(path) calls with caching enabled issue one network
\* GET in total: the first one fetches, the second one is served from the
\* in-memory cache.
C1_ReadThrough ==
    [][ ( /\ IsGet(last) /\ Enabled(last) /\ last.cold
          /\ GotList(last) /\ last.resp.body.val # << >>
          /\ IsGet(last') /\ last'.url = last.url /\ Enabled(last') )
        => ( /\ last.net + last'.net = 1
             /\ last'.exc = "ok"
             /\ last'.src = "memory"
             /\ DictEq(last'.ret.dict, ById(last.resp.body.val)) ) ]_vars

\* a get served from memory with the payload fetched for the same url
C1_Witness ==
    /\ IsGet(last) /\ last.net = 0 /\ last.exc = "ok" /\ last.src = "memory"
    /\ last.key \in DOMAIN origin /\ origin[last.key] = last.url
    /\ Truthy(last.ret.dict)

\* two returned values are equal in Python
SameValue(a, b) ==
    /\ a.kind = b.kind
    /\ a.kind = "dict" => DictEq(a.dict, b.dict)
    /\ a.kind = "json" => a.body = b.body

\* C2: the value Client.get returns after a 200 fetch equals the value the
\* following cached call for the same path returns.
C2_SameValueFetchedOrCached ==
    [][ ( /\ IsGet(last) /\ last.net = 1 /\ last.resp.status = 200
          /\ last.exc = "ok"
          /\ IsGet(last') /\ last'.url = last.url /\ last'.net = 0
          /\ last'.exc = "ok" )
        => SameValue(last.ret, last'.ret) ]_vars

\* C3: once a 200 answer with an empty list has been cached for a path, the
\* next Client.get(path) with caching enabled is a cache hit: it returns the
\* empty payload and issues no network request.
C3_EmptyPayloadIsHit ==
    [][ ( /\ IsGet(last) /\ GotList(last) /\ last.resp.body.val = << >>
          /\ last.exc = "ok"
          /\ IsGet(last') /\ last'.url = last.url /\ Enabled(last') )
        => ( /\ last'.net = 0
             /\ last'.ret = RetDict(EmptyDict) ) ]_vars

\* C8: Client.get with either use_cache flag false issues a network GET and
\* returns its parsed body.
C8_BypassStillFetches ==
    (IsGet(last) /\ ~Enabled(last))
        => (last.net = 1 /\ last.exc = "ok" /\ last.ret.kind = "json")

\* C9: a Client.get served from the cache returns the payload cached for its
\* own path, never one cached for a different path.
C9_KeysCollisionFree ==
    (IsGet(last) /\ last.net = 0 /\ last.exc = "ok"
        /\ last.key \in DOMAIN origin)
        => origin[last.key] = last.url

----------------------------------------------------------------------------
(* The cache alone *)

IsPut(c) == c.op = "cache" /\ c.key2 = None

\* what get_from_cache(key) returns in the current state
Stored(key) == get_from_cache(cache_dict, files, cache_directory, key)

\* C4: cache(k, None, p) followed by get_from_cache(k) returns a value equal
\* to p, whatever the cache held before.
C4_RoundTrip ==
    (IsPut(last) /\ last.exc = "ok")
        => DictEq(Stored(last.key).ret, last.arg.dict)

\* C5: clear_cache() leaves no in-memory entry, no cache file and no cache
\* directory, and a get_from_cache for any key then finds nothing stored, in
\* memory or in a file.
C5_ClearIsTotal ==
    last.op = "clear_cache"
        => /\ cache_dict = Empty
           /\ files = Empty
           /\ ~cache_directory
           /\ \A k \in CacheKeys :
                  Stored(k).src = "none" /\ Stored(k).ret = EmptyDict

\* clear_cache() has removed a directory that held cache files
C5_Witness ==
    last.op = "clear_cache" /\ last.exc = "ok" /\ last.stored # {}

\* C6: clear_cache() completes without raising, also when the cache
\* directory does not exist.
C6_ClearNeverRaises ==
    last.op = "clear_cache" => last.exc = "ok"

\* C7: cache(k, None, p) succeeds whether or not the cache directory exists:
\* it creates the directory when it is missing and stores the payload.
C7_WriteCreatesDirectory ==
    IsPut(last)
        => /\ last.exc = "ok"
           /\ cache_directory
           /\ last.key \in DOMAIN files
           /\ json_loads(files[last.key]) = last.arg.dict

----------------------------------------------------------------------------
(* The budget resolver *)

IsGetBudgetId(c) == c.op = "get_budget_id" /\ c.exc = "ok"

SeenBudgets(c, cd) ==
    IF c.net = 1 THEN Values(RetJson(c.resp.body))
    ELSE Values(RetDict(cd["budgets"]))

FirstBudgetId(c, cd) ==
    LET l == IF c.net = 1 THEN c.resp.body.val
             ELSE [i \in 1..Len(cd["budgets"]) |-> cd["budgets"][i].v]
    IN  IF l = << >> THEN None ELSE l[1].id

\* C11: get_budget_id() with no name and no pinned id, on a client with
\* caching enabled and its cache directory there, returns the id of the first
\* budget of the fetched list and None when the list is empty, without
\* raising, whether the budgets come from a 200 answer on a cold cache or
\* from the cache.
C11_FirstBudgetOrNone ==
    [][ ( /\ last'.op = "get_budget_id"
          /\ last'.arg.id = None
          /\ budget_id = None
          /\ use_cache /\ cache_directory
          /\ last'.net = 1 => last'.resp.status = 200 )
        => ( /\ last'.exc = "ok"
             /\ last'.ret.id = FirstBudgetId(last', cache_dict') ) ]_vars

----------------------------------------------------------------------------
(* Answers other than 200 *)

GotError(c) == IsGet(c) /\ c.net = 1 /\ c.resp.status # 200

\* C15: a Client.get that is answered with a status other than 200 does not
\* raise and returns the parsed body; it writes no cache file and leaves no
\* payload under its key in memory; and the next Client.get for the same
\* path with caching enabled issues a request again.
C15_ErrorAnswerPassedOn ==
    [][ /\ GotError(last')
            => /\ last'.exc = "ok"
               /\ last'.ret = RetJson(last'.resp.body)
               /\ files' = files
               /\ ~Truthy(cache_dict'[last'.key])
        /\ (GotError(last) /\ IsGet(last') /\ last'.url = last.url
                /\ Enabled(last'))
            => last'.net = 1 ]_vars

\* a Client.get answered with an error right after one for the same path
\* that was answered with an error, other paths being cached
C15_Witness ==
    /\ GotError(last)
    /\ last.exc = "ok"
    /\ last.stored # {}
    /\ last.key \in DOMAIN cache_dict

----------------------------------------------------------------------------
(* The file tier across client instances *)

\* C20: on a freshly constructed client with caching enabled, Client.get for
\* a path whose cache file holds a non-empty payload issues no request,
\* returns the payload of the file and leaves it in the in-memory map.
C20_FileOutlivesClient ==
    [][ ( /\ last.op = "init"
          /\ IsGet(last') /\ Enabled(last')
          /\ last'.key \in DOMAIN files
          /\ Truthy(json_loads(files[last'.key])) )
        => ( /\ last'.net = 0
             /\ last'.exc = "ok"
             /\ last'.src = "file"
             /\ DictEq(last'.ret.dict, json_loads(files[last'.key]))
             /\ last'.key \in DOMAIN cache_dict'
             /\ DictEq(cache_dict'[last'.key], json_loads(files[last'.key]))
             /\ files' = files ) ]_vars

\* a Client.get served from the cache file an earlier client wrote: nothing
\* was in memory, no request was issued, the payload is now in memory
C20_Witness ==
    /\ IsGet(last) /\ last.src = "file" /\ last.net = 0
    /\ last.key \in DOMAIN origin /\ origin[last.key] = last.url
    /\ Truthy(last.ret.dict)
    /\ DictEq(cache_dict[last.key], last.ret.dict)

----------------------------------------------------------------------------
(* The cache key *)

\* C16: the cache key of an already derived cache key is that same key:
\* whenever get_key(k) returns a key, get_key of that key returns it too.
C16_KeyIdempotent ==
    (last.op = "get_key" /\ last.exc = "ok")
        => LET again == get_key_str(SplitWord(last.ret.id))
           IN  again.exc = "ok" /\ again.key = last.ret.id

----------------------------------------------------------------------------
(* Memory and files *)

\* C17: with the cache directory there and after an operation that did not
\* raise, every key of the in-memory map that holds a payload has a cache
\* file, and the content of the file equals the in-memory payload of the key.
C17_MemoryMatchesFiles ==
    (cache_directory /\ last.exc = "ok")
        => \A k \in DOMAIN cache_dict :
               Truthy(cache_dict[k])
                   => /\ k \in DOMAIN files
                      /\ DictEq(json_loads(files[k]), cache_dict[k])

----------------------------------------------------------------------------
(* The category and payee resolvers *)

\* the call got the list of its resource, from a 200 answer or from the
\* cache, on a client whose cache directory is there
GotResource(c) ==
    /\ c.src # "none"
    /\ cache_directory
    /\ c.src = "network" => c.resp.status = 200

\* the list the call got
SeenItems(c, cd) ==
    IF c.src = "network" THEN c.resp.body.val
    ELSE [i \in 1..Len(cd[c.key]) |-> cd[c.key][i].v]

\* the id of the first category named name in the groups named group_name
RECURSIVE FirstCategoryId(_, _, _)
FirstCategoryId(groups, name, group_name) ==
    IF groups = << >> THEN None
    ELSE LET id == IF StripLower(group_name) = StripLower(Head(groups).name)
                   THEN ScanCategories(Head(groups).categories, name)
                   ELSE None
         IN  IF id # None THEN id
             ELSE FirstCategoryId(Tail(groups), name, group_name)

\* C12: get_category_id(name, group_name) with a group_name, once it has the
\* category groups, returns without raising the id of the first category
\* named name (case-insensitively) among the groups named group_name, and
\* None only when there is no such category.
C12_CategoryOfGroup ==
    (last.op = "get_category_id" /\ last.key2 # None /\ GotResource(last))
        => /\ last.exc = "ok"
           /\ last.ret.id = FirstCategoryId(SeenItems(last, cache_dict),
                                            last.arg.id, last.key2)

\* C13: get_payee_id(name), once it has the payees from a 200 answer or from
\* the cache, returns without raising the id of the first payee named name
\* (case-insensitively), and None when there is none.
C13_PayeeOrNone ==
    (last.op = "get_payee_id" /\ GotResource(last))
        => /\ last.exc = "ok"
           /\ last.ret.id = ScanPayees(SeenItems(last, cache_dict),
                                       last.arg.id).id

----------------------------------------------------------------------------
(* Posting a transaction *)

NoPayee(c) ==
    /\ c.op = "post_transaction"
    /\ Falsy(c.arg.payee_id) /\ Falsy(c.arg.payee_name)

\* C14: post_transaction with neither payee_id nor payee_name raises
\* UserWarning without issuing a request, and leaves the in-memory cache,
\* the cache files, _budget_id and rate_limit as they were.
C14_NoPayeeNoRequest ==
    [][ NoPayee(last')
        => /\ last'.exc = "UserWarning"
           /\ last'.net = 0
           /\ UNCHANGED <<cache_dict, files, cache_directory, budget_id,
                          rate_limit>> ]_vars

\* post_transaction without a payee has raised on a client that holds
\* cached payloads, a pinned budget and a rate limit
C14_Witness ==
    /\ NoPayee(last)
    /\ last.exc = "UserWarning"
    /\ last.arg.account_id = None
    /\ \E k \in DOMAIN cache_dict : Truthy(cache_dict[k])
    /\ budget_id # None
    /\ rate_limit # None

----------------------------------------------------------------------------
(* The rate limit *)

IsRequest(c) == c.op \in {"get", "post"}

\* C19: a Client.get or Client.post that issues a request sets rate_limit to
\* the x-rate-limit header of the answer and leaves it as it was when the
\* answer has none; the call ends as it would have with the header there;
\* one that issues no request leaves rate_limit alone; and whatever value
\* rate_limit holds, the call issues the same number of requests.
C19_RateLimitObserved ==
    [][ IsRequest(last')
        => /\ last'.net = 1
                => rate_limit' = IF last'.resp.hdr # None
                                 THEN last'.resp.hdr ELSE rate_limit
           /\ last'.net = 0 => rate_limit' = rate_limit
           /\ last'.op = "post" => last'.exc = "ok"
           /\ last'.op = "get"
                => /\ get(World, use_cache, last'.url, last'.arg.flag,
                          [last'.resp EXCEPT !.hdr = "36/200"]).exc
                      = last'.exc
                   /\ \A rl \in RateHeaders :
                          get([World EXCEPT !.rl = rl], use_cache, last'.url,
                              last'.arg.flag, last'.resp).net = last'.net
           /\ last'.op = "post"
                => \A rl \in RateHeaders :
                       post([World EXCEPT !.rl = rl], last'.resp).net = 1
      ]_vars

\* a request answered without the header has left the rate limit an earlier
\* answer set
C19_Witness ==
    /\ IsRequest(last)
    /\ last.net = 1
    /\ last.resp.hdr = None
    /\ rate_limit # None

----------------------------------------------------------------------------
(* The pinned budget *)

\* the operations that may set _budget_id to any value: set_budget_id, and
\* the construction of a new client
SetsPin(c) == c.op \in {"set_budget_id", "init"}

\* C18: once _budget_id holds an id, no get_budget_id call, whatever name it
\* passes, and no other resolver or fetch operation changes it; only
\* set_budget_id does.
C18_PinWrittenOnce ==
    [][ (budget_id # None /\ ~SetsPin(last')) => budget_id' = budget_id ]_vars

\* a resolver other than get_budget_id has run through get_budget_id() on a
\* client whose pinned id is not the first of the cached budgets
C18_Witness ==
    /\ last.op = "get_payee_id"
    /\ last.net > 0
    /\ budget_id # None
    /\ "budgets" \in DOMAIN cache_dict
    /\ Truthy(cache_dict["budgets"])
    /\ cache_dict["budgets"][1].k # budget_id

====
